---- MODULE Spec2Model ----
(***************************************************************************)
(* A model of the prefix tree of src/lib.rs: TrieNode, Trie::new,          *)
(* Trie::insert, Trie::contains and Trie::starts_with.                     *)
(*                                                                         *)
(* A Rust `char` is an element of Char, a `&str` / `String` is a finite    *)
(* sequence of chars, and a TrieNode is the record                         *)
(*     [is_end |-> BOOLEAN, children |-> function from String to TrieNode] *)
(* nested by value, as the HashMap<String, TrieNode> owns its nodes.       *)
(***************************************************************************)
EXTENDS Naturals, Sequences, FiniteSets, TLC

\* The characters the modelled callers use.
Char == {"a", "b"}

\* The longest word a modelled caller passes.
MaxLen == 2

\* The number of insert calls a modelled run makes.
MaxInserts == 3

\* Every &str of at most MaxLen chars.
Str == UNION {[1..n -> Char] : n \in 0..MaxLen}

VARIABLES
    root,      \* Trie.root
    op,        \* the last call: "new", "insert", "contains", "starts_with"
    arg,       \* the word the last call was given
    ret,       \* the value the last call returned
    pre,       \* Trie.root as the last call found it
    rep,       \* the last call is insert(W) and so was the call before it
    inserted,  \* every word passed to insert so far
    ninserts   \* the number of insert calls so far

vars == <<root, op, arg, ret, pre, rep, inserted, ninserts>>

----------------------------------------------------------------------------
(* Conversions *)

\* char::to_string: the String of the one char c.
CharToString(c) == <<c>>

\* str::to_string: a new String holding the chars of word, in order.
StrToString(word) == [i \in 1..Len(word) |-> word[i]]

----------------------------------------------------------------------------
(* TrieNode *)

\* TrieNode::new
TrieNodeNew == [is_end |-> FALSE, children |-> <<>>]

\* HashMap::entry(key).or_insert_with(TrieNode::new): the node under key,
\* a new one when the map has none.
EntryOrInsert(children, key) ==
    IF key \in DOMAIN children THEN children[key] ELSE TrieNodeNew

----------------------------------------------------------------------------
(* Trie *)

\* Trie::new
TrieNew == TrieNodeNew

\* InsertLoop with `children.insert(key, TrieNode::new())` in place of
\* `entry(key).or_insert_with(TrieNode::new)`: the child is always a new node.
RECURSIVE InsertLoop_replace(_, _)
InsertLoop_replace(curr, word) ==
    IF word = <<>>
    THEN [curr EXCEPT !.is_end = TRUE]
    ELSE LET key == CharToString(Head(word))
         IN  [curr EXCEPT !.children =
                 [k \in DOMAIN curr.children \cup {key} |->
                     IF k = key THEN InsertLoop_replace(TrieNodeNew, Tail(word))
                                ELSE curr.children[k]]]

\* InsertLoop with `curr.is_end = true` inside the loop as well: every node
\* the walk steps to is marked.
RECURSIVE InsertLoop_markAll(_, _)
InsertLoop_markAll(curr, word) ==
    IF word = <<>>
    THEN [curr EXCEPT !.is_end = TRUE]
    ELSE LET key == CharToString(Head(word))
             child == EntryOrInsert(curr.children, key)
         IN  [curr EXCEPT !.children =
                 [k \in DOMAIN curr.children \cup {key} |->
                     IF k = key
                     THEN [InsertLoop_markAll(child, Tail(word))
                              EXCEPT !.is_end = TRUE]
                     ELSE curr.children[k]]]

\* InsertLoop with `curr.is_end = !curr.is_end` as its last assignment.
RECURSIVE InsertLoop_toggle(_, _)
InsertLoop_toggle(curr, word) ==
    IF word = <<>>
    THEN [curr EXCEPT !.is_end = ~curr.is_end]
    ELSE LET key == CharToString(Head(word))
             child == EntryOrInsert(curr.children, key)
         IN  [curr EXCEPT !.children =
                 [k \in DOMAIN curr.children \cup {key} |->
                     IF k = key THEN InsertLoop_toggle(child, Tail(word))
                                ELSE curr.children[k]]]

\* InsertLoop that stops one char early: the node of the last char is not
\* created, and the node before it is the one marked.
RECURSIVE InsertLoop_short(_, _)
InsertLoop_short(curr, word) ==
    IF Len(word) <= 1
    THEN [curr EXCEPT !.is_end = TRUE]
    ELSE LET key == CharToString(Head(word))
             child == EntryOrInsert(curr.children, key)
         IN  [curr EXCEPT !.children =
                 [k \in DOMAIN curr.children \cup {key} |->
                     IF k = key THEN InsertLoop_short(child, Tail(word))
                                ELSE curr.children[k]]]

\* The loop of Trie::insert and the assignment after it, seen from the node
\* curr with the chars of word still to consume: step to the child under
\* the next char (created when absent), and mark the node the walk ends on.
RECURSIVE InsertLoop(_, _)
InsertLoop(curr, word) ==
    IF word = <<>>
    THEN [curr EXCEPT !.is_end = TRUE]
    ELSE LET key == CharToString(Head(word))
             child == EntryOrInsert(curr.children, key)
         IN  [curr EXCEPT !.children =
                 [k \in DOMAIN curr.children \cup {key} |->
                     IF k = key THEN InsertLoop(child, Tail(word))
                                ELSE curr.children[k]]]

\* insert returning the String of the last key it walked, not of the word.
insert_lastKey(self, word) ==
    [root |-> InsertLoop(self, word),
     ret  |-> IF word = <<>> THEN <<>> ELSE CharToString(word[Len(word)])]

\* Trie::insert: the root it leaves and the String it returns.
insert(self, word) ==
    [root |-> InsertLoop(self, word), ret |-> StrToString(word)]

\* contains with `true` as its last expression, as starts_with has.
RECURSIVE contains_noEndCheck(_, _)
contains_noEndCheck(curr, word) ==
    IF word = <<>>
    THEN TRUE
    ELSE LET key == CharToString(Head(word))
         IN  IF key \in DOMAIN curr.children
             THEN contains_noEndCheck(curr.children[key], Tail(word))
             ELSE FALSE

\* Trie::contains
RECURSIVE contains(_, _)
contains(curr, word) ==
    IF word = <<>>
    THEN curr.is_end
    ELSE LET key == CharToString(Head(word))
         IN  IF key \in DOMAIN curr.children
             THEN contains(curr.children[key], Tail(word))
             ELSE FALSE

\* starts_with with `curr.is_end` as its last expression, as contains has.
RECURSIVE starts_with_endCheck(_, _)
starts_with_endCheck(curr, word) ==
    IF word = <<>>
    THEN curr.is_end
    ELSE LET key == CharToString(Head(word))
         IN  IF key \in DOMAIN curr.children
             THEN starts_with_endCheck(curr.children[key], Tail(word))
             ELSE FALSE

\* starts_with with `curr.is_end || !curr.children.is_empty()` as its last
\* expression: true only when a stored word is at or under the node.
RECURSIVE starts_with_stored(_, _)
starts_with_stored(curr, word) ==
    IF word = <<>>
    THEN curr.is_end \/ DOMAIN curr.children # {}
    ELSE LET key == CharToString(Head(word))
         IN  IF key \in DOMAIN curr.children
             THEN starts_with_stored(curr.children[key], Tail(word))
             ELSE FALSE

\* Trie::starts_with
RECURSIVE starts_with(_, _)
starts_with(curr, word) ==
    IF word = <<>>
    THEN TRUE
    ELSE LET key == CharToString(Head(word))
         IN  IF key \in DOMAIN curr.children
             THEN starts_with(curr.children[key], Tail(word))
             ELSE FALSE

----------------------------------------------------------------------------
(* The calls *)

Init ==
    /\ root = TrieNew
    /\ op = "new"
    /\ arg = <<>>
    /\ ret = FALSE
    /\ pre = TrieNew
    /\ rep = FALSE
    /\ inserted = {}
    /\ ninserts = 0

InsertCall ==
    \E word \in Str :
        /\ ninserts < MaxInserts
        /\ LET r == insert(root, word)
           IN  /\ root' = r.root
               /\ ret' = r.ret
        /\ op' = "insert"
        /\ arg' = word
        /\ pre' = root
        /\ rep' = (op = "insert" /\ arg = word)
        /\ inserted' = inserted \cup {word}
        /\ ninserts' = ninserts + 1

ContainsCall ==
    \E word \in Str :
        /\ ret' = contains(root, word)
        /\ op' = "contains"
        /\ arg' = word
        /\ pre' = root
        /\ rep' = FALSE
        /\ UNCHANGED <<root, inserted, ninserts>>

\* The walk of insert without its last assignment: the nodes of word are
\* created, none is marked.
RECURSIVE EntryWalk(_, _)
EntryWalk(curr, word) ==
    IF word = <<>>
    THEN curr
    ELSE LET key == CharToString(Head(word))
             child == EntryOrInsert(curr.children, key)
         IN  [curr EXCEPT !.children =
                 [k \in DOMAIN curr.children \cup {key} |->
                     IF k = key THEN EntryWalk(child, Tail(word))
                                ELSE curr.children[k]]]

\* StartsWithCall walking its `&mut self` with entry().or_insert_with(), as
\* insert does: the nodes of the queried word are created.
StartsWithCall_creating ==
    \E word \in Str :
        /\ ret' = starts_with(root, word)
        /\ root' = EntryWalk(root, word)
        /\ op' = "starts_with"
        /\ arg' = word
        /\ pre' = root
        /\ rep' = FALSE
        /\ UNCHANGED <<inserted, ninserts>>

StartsWithCall ==
    \E word \in Str :
        /\ ret' = starts_with(root, word)
        /\ op' = "starts_with"
        /\ arg' = word
        /\ pre' = root
        /\ rep' = FALSE
        /\ UNCHANGED <<root, inserted, ninserts>>

Next == InsertCall \/ ContainsCall \/ StartsWithCall

Spec == Init /\ [][Next]_vars

----------------------------------------------------------------------------
(* What a tree holds, read off the TrieNode records *)

\* The char path of every node under (and including) node: the node itself
\* has path <<>>, a child's paths are prefixed by its key in children.
RECURSIVE Paths(_)
Paths(node) ==
    {<<>>} \cup UNION {{k \o p : p \in Paths(node.children[k])} :
                          k \in DOMAIN node.children}

\* The paths of the nodes whose is_end is set.
RECURSIVE Terminals(_)
Terminals(node) ==
    (IF node.is_end THEN {<<>>} ELSE {})
        \cup UNION {{k \o p : p \in Terminals(node.children[k])} :
                       k \in DOMAIN node.children}

\* p is a prefix of w.
IsPrefix(p, w) == Len(p) <= Len(w) /\ SubSeq(w, 1, Len(p)) = p

\* p is a prefix of w other than w.
IsProperPrefix(p, w) == IsPrefix(p, w) /\ Len(p) < Len(w)

\* The first n chars of w.
Prefix(w, n) == SubSeq(w, 1, n)

\* The length of the longest prefix of w that is a path of node.
LongestPath(node, w) ==
    CHOOSE k \in 0..Len(w) :
        /\ Prefix(w, k) \in Paths(node)
        /\ \A j \in (k+1)..Len(w) : Prefix(w, j) \notin Paths(node)

\* The number of nodes under (and including) node, counted node by node.
RECURSIVE NodeCount(_)
NodeCount(node) ==
    LET RECURSIVE Sum(_)
        Sum(keys) ==
            IF keys = {} THEN 0
            ELSE LET k == CHOOSE x \in keys : TRUE
                 IN  NodeCount(node.children[k]) + Sum(keys \ {k})
    IN  1 + Sum(DOMAIN node.children)

\* The tree that holds exactly the words of the set S, from the node of
\* path at down: a node per prefix of a word of S, marked when its path is
\* a word of S.
RECURSIVE Canon(_, _)
Canon(S, at) ==
    [is_end   |-> at \in S,
     children |-> LET keys == {CharToString(c) : c \in
                                  {c \in Char : \E w \in S : IsPrefix(at \o <<c>>, w)}}
                  IN  IF keys = {} THEN <<>>
                      ELSE [k \in keys |-> Canon(S, at \o k)]]

\* The elements of the set S, each once, in some order.
RECURSIVE SeqOf(_)
SeqOf(S) ==
    IF S = {} THEN <<>>
    ELSE LET x == CHOOSE y \in S : TRUE
         IN  <<x>> \o SeqOf(S \ {x})

\* The words of Str in a row, so that each pair of two words is met once.
StrList == SeqOf(Str)

\* The state is one that new or insert has just left. Every tree a run
\* reaches is the root of such a state: a query leaves root alone (C6).
AfterNewOrInsert == op \in {"new", "insert"}

----------------------------------------------------------------------------
(* The claims *)

\* C1: after any sequence of insert calls on a new trie, contains(W) is
\* true exactly for the words W passed to insert so far (not for a proper
\* prefix or a proper extension of one, and for no word on a new trie); a
\* contains call returns that value.
C1_ContainsIffInserted ==
    /\ \A w \in Str : contains(root, w) <=> (w \in inserted)
    /\ op = "contains" => (ret <=> (arg \in inserted))

\* C1's case: contains has just returned false for a non-empty word that
\* is a proper prefix of one stored word and a proper extension of another.
C1_Witness ==
    /\ op = "contains"
    /\ ret = FALSE
    /\ arg # <<>>
    /\ \E w \in inserted : IsProperPrefix(arg, w)
    /\ \E v \in inserted : IsProperPrefix(v, arg)

\* C2 as stated: starts_with(P) is true exactly when some stored word
\* begins with P.
C2_StartsWithIffStoredPrefix ==
    \A p \in Str :
        starts_with(root, p) <=> (\E w \in inserted : IsPrefix(p, w))

\* C2 as amended: starts_with(P) is true exactly when P is empty or some
\* stored word begins with P; a starts_with call returns that value.
C2_StartsWithIffEmptyOrStoredPrefix ==
    /\ \A p \in Str :
          starts_with(root, p)
              <=> (p = <<>> \/ \E w \in inserted : IsPrefix(p, w))
    /\ op = "starts_with" =>
          (ret <=> (arg = <<>> \/ \E w \in inserted : IsPrefix(arg, w)))

\* C2's case: starts_with has just returned true for a non-empty prefix
\* that is itself no stored word.
C2_Witness ==
    /\ op = "starts_with"
    /\ ret = TRUE
    /\ arg # <<>>
    /\ arg \notin inserted
    /\ \E w \in inserted : IsProperPrefix(arg, w)

\* C3: starts_with of the empty sequence is true in every reachable state,
\* also on a trie insert was never called on.
C3_EmptyPrefixAlwaysTrue ==
    /\ starts_with(root, <<>>)
    /\ (op = "starts_with" /\ arg = <<>>) => ret = TRUE

\* C3's case: starts_with("") has just returned on a new trie.
C3_Witness ==
    /\ op = "starts_with"
    /\ arg = <<>>
    /\ ret = TRUE
    /\ ninserts = 0
    /\ root = TrieNew

\* C4: insert(W) right after insert(W) leaves the whole tree as the first
\* call left it, so contains and starts_with answer every query alike:
\* from every tree a run reaches, and in the run itself.
C4_InsertIdempotent ==
    /\ AfterNewOrInsert =>
          \A w \in Str :
              LET once == insert(root, w).root
              IN  insert(once, w).root = once
    /\ rep =>
          /\ root = pre
          /\ \A q \in Str :
                /\ contains(root, q) = contains(pre, q)
                /\ starts_with(root, q) = starts_with(pre, q)

\* C4's case: the second of two insert calls of one word of two chars or
\* more has just returned.
C4_Witness ==
    /\ rep
    /\ op = "insert"
    /\ Len(arg) >= 2
    /\ arg \in Terminals(root)

\* C5: insert(W) keeps every node with its path, keeps every set terminal
\* flag, and leaves contains(V) as it was for every word V other than W.
C5_InsertKeepsTheRest ==
    op = "insert" =>
        /\ Paths(pre) \subseteq Paths(root)
        /\ Terminals(pre) \subseteq Terminals(root)
        /\ \A v \in Str \ {arg} : contains(root, v) = contains(pre, v)

\* C5's case: insert has just added a word that shares a non-empty prefix
\* with a different word stored before, and that word is still stored.
C5_Witness ==
    /\ op = "insert"
    /\ arg \notin Terminals(pre)
    /\ \E v \in Terminals(pre) :
          /\ v # arg
          /\ \E n \in 1..Len(v) : IsProperPrefix(Prefix(v, n), arg)
          /\ contains(root, v)

\* C6: contains and starts_with leave the tree as they found it, also when
\* the walk stops at a missing child.
C6_QueriesDoNotMutate ==
    op \in {"contains", "starts_with"} => root = pre

\* C6's case: starts_with has just stopped at a missing child of a trie
\* that stores a word.
C6_Witness ==
    /\ op = "starts_with"
    /\ ret = FALSE
    /\ arg \notin Paths(pre)
    /\ inserted # {}
    /\ root = pre

\* C7: insert(W) returns a value equal to W, whatever the trie holds.
C7_InsertReturnsWord ==
    op = "insert" => ret = arg

\* C7's case: insert has just returned for a word of two chars or more
\* that was stored already.
C7_Witness ==
    /\ op = "insert"
    /\ Len(arg) >= 2
    /\ arg \in Terminals(pre)
    /\ ret = arg

\* C8: a node's is_end is set exactly when its path from the root is a word
\* passed to insert; the root's exactly when the empty word was.
C8_TerminalIffInserted ==
    /\ Terminals(root) = inserted
    /\ root.is_end <=> (<<>> \in inserted)

\* C8's case: a word of two chars or more is stored, the nodes of its
\* proper prefixes exist, and none of them is marked.
C8_Witness ==
    \E w \in inserted :
        /\ Len(w) >= 2
        /\ \A n \in 0..(Len(w) - 1) :
              Prefix(w, n) \in Paths(root) \ Terminals(root)

\* C9: insert(W), W of n chars of which the first k (and no more) are a
\* path before the call, creates exactly the n - k nodes of W's longer
\* prefixes, marks none of them but the last, and creates none when k = n.
C9_InsertCreatesMissingNodes ==
    op = "insert" =>
        LET n == Len(arg)
            k == LongestPath(pre, arg)
        IN  /\ NodeCount(root) = NodeCount(pre) + (n - k)
            /\ Paths(root) \ Paths(pre) = {Prefix(arg, j) : j \in (k+1)..n}
            /\ Terminals(root) = Terminals(pre) \cup {arg}
            /\ k = n => Paths(root) = Paths(pre)

\* C9's case: insert has just created the missing node of a word below a
\* node, not the root, that was there before.
C9_Witness ==
    /\ op = "insert"
    /\ LongestPath(pre, arg) >= 1
    /\ LongestPath(pre, arg) < Len(arg)
    /\ NodeCount(root) = NodeCount(pre) + (Len(arg) - LongestPath(pre, arg))
    /\ NodeCount(root) > NodeCount(pre)

\* C10: insert(V) then insert(W) leaves the tree insert(W) then insert(V)
\* leaves, from every tree a run reaches; and the tree a run reaches is the
\* one tree of the set of words inserted.
C10_InsertOrderIndependent ==
    /\ root = Canon(inserted, <<>>)
    /\ AfterNewOrInsert =>
          \A i \in 1..Len(StrList) :
              LET v == StrList[i]
                  afterV == insert(root, v).root
              IN  \A j \in (i+1)..Len(StrList) :
                      LET w == StrList[j]
                      IN  insert(afterV, w).root
                              = insert(insert(root, w).root, v).root

\* C10's case: a word has just been inserted after a longer word it is a
\* proper prefix of.
C10_Witness ==
    /\ op = "insert"
    /\ arg # <<>>
    /\ arg \notin Terminals(pre)
    /\ \E w \in Terminals(pre) : IsProperPrefix(arg, w)
    /\ root = Canon(inserted, <<>>)

====
